---------------------------- MODULE Spec2Model ----------------------------
(***************************************************************************)
(* A model of cfp/data/data.py (TrainingData / ValidationData assembly)    *)
(* and cfp/training/callbacks.py (ComputeMetrics, CallbackRunner).         *)
(*                                                                         *)
(* Five independent programs are modelled, each with its own               *)
(* specification over the shared variable list:                            *)
(*   SpecTrain    TrainingData.load_from_adata                             *)
(*   SpecValid    ValidationData.load_from_adata                           *)
(*   SpecMetrics  ComputeMetrics: __init__ and the hooks of the object     *)
(*   SpecRunner   CallbackRunner: __init__ and the hooks of the runner     *)
(*   SpecHelpers  the PerturbationData helpers called on their own         *)
(* The variables of the programs a specification does not run stay at      *)
(* their idle values.                                                      *)
(***************************************************************************)
EXTENDS Integers, Sequences, FiniteSets, TLC

VARIABLES
    \* ---- TrainingData.load_from_adata ----
    adata,                          \* the dataset: one record per cell (adata.obs rows)
    args,                           \* the keyword arguments of the call
    pc,                             \* position in load_from_adata
    error,                          \* the exception raised, "none" if none
    primary_encoder,                \* result of _get_primary_covar_encoder
    max_combination_length,         \* result of _get_max_combination_length
    split_cov_combs,                \* data.py:506-509
    perturb_covar_df,               \* data.py:515
    split_i,                        \* position of the outer loop (data.py:524)
    tgt_i,                          \* position of the inner loop (data.py:536)
    src_counter,
    tgt_counter,
    split_covariates_mask,
    split_idx_to_covariates,
    perturbation_covariates_mask,
    perturbation_idx_to_covariates,
    condition_data,
    conditional_distributions,
    control_to_perturbation,
    \* ---- ValidationData.load_from_adata ----
    v_adata,                        \* the dataset: one record per cell
    v_obs_columns,                  \* the column labels of adata.obs
    v_obs_dtypes,                   \* column label -> dtype of the column
    v_args,                         \* the keyword arguments of the call
    v_pc,                           \* position in load_from_adata
    v_error,                        \* the exception raised, "none" if none
    v_raised_in,                    \* the statement that raised it, "none" if none
    v_split_covariates,             \* the local split_covariates (data.py:674)
    v_src_data,
    v_tgt_data,
    v_condition_data,
    \* ---- ComputeMetrics ----
    cm_args,                        \* the arguments of ComputeMetrics(...)
    cm_pc,                          \* "new", "init", "constructed", "raised"
    cm_i,                           \* position of the loop of __init__
    cm_self,                        \* the object's attributes, once assigned
    cm_error,
    cm_call,                        \* the last hook invoked on the object
    cm_result,                      \* what that hook returned
    \* ---- CallbackRunner ----
    r_callbacks,                    \* the callbacks argument of CallbackRunner(...)
    r_data,                         \* the data argument: name -> validation dataset
    r_pc,                           \* position in the runner's life
    r_hook,                         \* the hook being run
    r_self,                         \* computation_callbacks, logging_callbacks
    r_i,                            \* position of the hook's current loop
    r_n_used,                       \* name -> sample count _sample_validation_data read
    r_validation_data,              \* the local validation_data of the hook
    r_dict_to_log,
    r_calls,                        \* the callback invocations of the current hook
    r_returned,                     \* the hook's return value
    r_error,
    r_log_iterations,               \* on_log_iteration calls made so far
    \* ---- direct calls of the PerturbationData helpers ----
    h_call,                         \* the function called and its arguments
    h_pc,                           \* "new", "called", "called again"
    h_result,                       \* [err, val]: what the call raised or returned
    h_again                         \* the result of the call on its own result

trainVars == <<adata, args, pc, error, primary_encoder, max_combination_length,
               split_cov_combs, perturb_covar_df, split_i, tgt_i, src_counter,
               tgt_counter, split_covariates_mask, split_idx_to_covariates,
               perturbation_covariates_mask, perturbation_idx_to_covariates,
               condition_data, conditional_distributions, control_to_perturbation>>

validVars == <<v_adata, v_obs_columns, v_obs_dtypes, v_args, v_pc, v_error, v_raised_in,
               v_split_covariates, v_src_data, v_tgt_data, v_condition_data>>

metricsVars == <<cm_args, cm_pc, cm_i, cm_self, cm_error, cm_call, cm_result>>

runnerVars == <<r_callbacks, r_data, r_pc, r_hook, r_self, r_i, r_n_used,
                r_validation_data, r_dict_to_log, r_calls, r_returned, r_error,
                r_log_iterations>>

helperVars == <<h_call, h_pc, h_result, h_again>>

vars == <<trainVars, validVars, metricsVars, runnerVars, helperVars>>

\* each program leaves the variables of the others alone
TrainOnly == UNCHANGED <<validVars, metricsVars, runnerVars, helperVars>>
ValidOnly == UNCHANGED <<trainVars, metricsVars, runnerVars, helperVars>>
MetricsOnly == UNCHANGED <<trainVars, validVars, runnerVars, helperVars>>
RunnerOnly == UNCHANGED <<trainVars, validVars, metricsVars, helperVars>>
HelperOnly == UNCHANGED <<trainVars, validVars, metricsVars, runnerVars>>

(***************************************************************************)
(* Bounds of the model.                                                    *)
(***************************************************************************)
MaxCells == 2           \* cells in the dataset
MaxGroupLen == 2        \* covariates per perturbation covariate group
MaxComb == 2            \* largest max_combination_length argument

SplitVals == {"s1", "s2"}           \* values of the split covariate column
PertVals == {"p1", "p2"}            \* distinct rows of adata.obs[perturb_covar_keys]

(***************************************************************************)
(* Python values.                                                          *)
(***************************************************************************)
None == <<>>                        \* an optional value is <<>> or <<v>>
Some(v) == <<v>>
NoSplit == "all"                    \* the empty split combination [] of data.py:509
NullValue == "null"                 \* null_value, the padding entry
DataValue == "x"                    \* an entry computed from the data

Max(S) == CHOOSE m \in S : \A k \in S : k <= m
Range(f) == {f[i] : i \in DOMAIN f}

\* d | e on mappings: the right operand wins on a shared key
Merge(d, e) == [k \in (DOMAIN d) \cup (DOMAIN e) |->
                   IF k \in DOMAIN e THEN e[k] ELSE d[k]]

\* d[key] = value on a mapping
SetItem(d, key, value) == [k \in (DOMAIN d) \cup {key} |->
                              IF k = key THEN value ELSE d[k]]

\* pandas drop_duplicates(): the distinct values in first-appearance order
RECURSIVE drop_duplicates_reversed(_)
drop_duplicates_reversed(s) ==
    IF s = <<>> THEN <<>>
    ELSE LET front == drop_duplicates_reversed(SubSeq(s, 1, Len(s) - 1))
             last == s[Len(s)]
         IN IF last \in Range(front) THEN front ELSE <<last>> \o front

RECURSIVE drop_duplicates(_)
drop_duplicates(s) ==
    IF s = <<>> THEN <<>>
    ELSE LET front == drop_duplicates(SubSeq(s, 1, Len(s) - 1))
             last == s[Len(s)]
         IN IF last \in Range(front) THEN front ELSE Append(front, last)

\* a rows x cols array whose entries are all v
Full(rows, cols, v) == [r \in 1..rows |-> [c \in 1..cols |-> v]]

\* jnp.concatenate(list, axis=0) of a list of 2-D arrays
RECURSIVE concatenate(_)
concatenate(list) ==
    IF list = <<>> THEN <<>> ELSE Head(list) \o concatenate(Tail(list))

(***************************************************************************)
(* PerturbationData helpers (data.py:85-384).                              *)
(***************************************************************************)

\* data.py:64-83.  The exception _get_cell_data raises, "none" if none.
\* sample_rep is a string (key), a dict (its number of entries; a one-entry
\* dict names an attribute and a key the dataset has) or another value.
_get_cell_data(sample_rep) ==
    IF sample_rep.type = "str"
    THEN IF sample_rep.key = "X" THEN "none"
         ELSE IF ~sample_rep.in_obsm THEN "ValueError"
         ELSE "none"
    ELSE IF sample_rep.type # "dict" THEN "ValueError"
    ELSE IF sample_rep.entries = 0 THEN "IndexError"      \* list(...)[0] of no keys
    ELSE "none"

\* data.py:85-97.  The exception _verify_control_data raises, "none" if none.
_verify_control_data(obs, key_in_obs) ==
    IF ~key_in_obs THEN "ValueError"
    ELSE IF Cardinality({c \in DOMAIN obs : obs[c].control}) = 0 THEN "ValueError"
    ELSE "none"

\* data.py:99-120
_verify_perturbation_covariates(data) ==
    IF Len(data) = 0 THEN "ValueError"
    ELSE IF \E g \in DOMAIN data : Len(data[g]) = 0 THEN "ValueError"
    ELSE "none"

\* data.py:168-174
_verify_linked_covars_unchecked(perturb_covariates) == "none"

_verify_linked_covars(perturb_covariates) ==
    LET lengths == [g \in DOMAIN perturb_covariates |-> Len(perturb_covariates[g])]
    IN IF Cardinality(Range(lengths)) # 1 THEN "ValueError" ELSE "none"

\* data.py:154-166: for each primary covariate, the linked covariate of every
\* other group at the same position (zip stops at the shorter list)
_get_linked_covariates(perturb_covariates) ==
    LET primary_covars == perturb_covariates[1]
    IN [k \in DOMAIN primary_covars |->
          [g \in {h \in 2..Len(perturb_covariates) : k <= Len(perturb_covariates[h])}
              |-> perturb_covariates[g][k]]]

\* data.py:190-206
_get_max_combination_length(perturbation_covariates, mcl) ==
    LET obs_max_combination_length ==
            Max({Len(perturbation_covariates[g]) : g \in DOMAIN perturbation_covariates})
    IN IF mcl = None THEN obs_max_combination_length
       ELSE IF mcl[1] < obs_max_combination_length THEN obs_max_combination_length
       ELSE mcl[1]

\* data.py:208-229.  What the function returns: None when the primary group
\* has a precomputed representation, the bare encoder in the categorical
\* case, the pair (encoder, is_categorical) in the numeric case.
_get_primary_covar_encoder(perturbation_covariates, is_categorical, primary_has_rep) ==
    IF primary_has_rep THEN [kind |-> "None", n_categories |-> 0, is_cat |-> FALSE]
    ELSE IF is_categorical
         THEN [kind |-> "encoder", n_categories |-> 0, is_cat |-> TRUE]
    ELSE [kind |-> "pair", n_categories |-> Len(perturbation_covariates[1]),
          is_cat |-> is_categorical]

\* data.py:255-276 on a 2-D array (a sequence of rows): the (1, F) row form.
\* Result: [err, val].
_check_shape_untransposed(arr) ==
    IF Len(arr) = 1 \/ \A r \in DOMAIN arr : Len(arr[r]) = 1
    THEN [err |-> "none", val |-> arr]
    ELSE [err |-> "ValueError", val |-> <<>>]

_check_shape(arr) ==
    IF Len(arr) = 1 THEN [err |-> "none", val |-> arr]
    ELSE IF \A r \in DOMAIN arr : Len(arr[r]) = 1
         THEN [err |-> "none", val |-> <<[c \in DOMAIN arr |-> arr[c][1]]>>]
    ELSE [err |-> "ValueError", val |-> <<>>]

\* data.py:288-297
_pad_to_max_length_unpadded(arr, mcl, null_value) == arr

_pad_to_max_length_truncating(arr, mcl, null_value) ==
    IF Len(arr) < mcl
    THEN arr \o Full(mcl - Len(arr), Len(arr[1]), null_value)
    ELSE SubSeq(arr, 1, mcl)

_pad_to_max_length(arr, mcl, null_value) ==
    IF Len(arr) < mcl
    THEN arr \o Full(mcl - Len(arr), Len(arr[1]), null_value)
    ELSE arr

\* data.py:255-276 on an array of any rank: a is [ndim |-> 0, scalar],
\* [ndim |-> 1, entries], [ndim |-> 2, rows] or [ndim |-> 3, blocks] (the
\* sequence of its 2-D arrays).  Result: [err, val].
_check_shape_any_rank(a) ==
    IF a.ndim = 0 THEN [err |-> "none", val |-> <<<<a.scalar>>>>]   \* jnp.ones((1, 1)) * arr
    ELSE IF a.ndim = 1 THEN [err |-> "none", val |-> <<a.entries>>] \* jnp.expand_dims(arr, 0)
    ELSE IF a.ndim = 2 THEN _check_shape(a.rows)
    ELSE [err |-> "ValueError", val |-> <<>>]

\* data.py:299-384.  Result: [err, val]; val maps every covariate group (the
\* perturbation groups 1..G, then the sample covariates G+1..G+S) to its
\* embedding.
_get_perturbation_covariates(perturb_covariates, n_sample, primary_to_linked, encoder, mcl, null_value) ==
    IF encoder.kind # "pair"
    THEN [err |-> "TypeError", val |-> <<>>]          \* data.py:315 cannot unpack
    ELSE
    LET G == Len(perturb_covariates)
        primary_covars == perturb_covariates[1]
        \* data.py:330-338: encoder.transform gives a (1, n_categories) row
        prim_arr == _check_shape(Full(1, encoder.n_categories, DataValue)).val
        \* data.py:340-361: one (1, 1) row per primary covariate, for each
        \* linked group that has a covariate at that position
        linked_arr == _check_shape(Full(1, 1, DataValue)).val
        rows(g) == IF g = 1
                   THEN [k \in DOMAIN primary_covars |-> prim_arr]
                   ELSE [k \in DOMAIN primary_covars |-> linked_arr]
        perturb_covar_emb ==
            [g \in 1..G |->
                _pad_to_max_length(concatenate(rows(g)), mcl, null_value)]
        \* data.py:370-382: jnp.tile(cov_arr, (mcl, 1))
        sample_covar_emb ==
            [s \in (G + 1)..(G + n_sample) |->
                concatenate([r \in 1..mcl |->
                                _check_shape(Full(1, 1, DataValue)).val])]
    IN [err |-> "none", val |-> Merge(perturb_covar_emb, sample_covar_emb)]

(***************************************************************************)
(* TrainingData.load_from_adata (data.py:437-583).                         *)
(***************************************************************************)
Cell == [control : BOOLEAN, split : SplitVals, pert : PertVals]
Datasets == UNION {[1..n -> Cell] : n \in 1..MaxCells}

\* perturbation_covariates: a list of groups, each a list of column names;
\* the column of group g at position k is named <<g, k>>
CovariateGroups ==
    {[g \in 1..Len(lens) |-> [k \in 1..lens[g] |-> <<g, k>>]] :
        lens \in UNION {[1..n -> 1..MaxGroupLen] : n \in 1..2}}

TrainArgs ==
    [control_key_in_obs : BOOLEAN,
     perturbation_covariates : CovariateGroups,
     primary_is_categorical : BOOLEAN,       \* outcome of _check_covariate_type
     primary_has_rep : BOOLEAN,              \* primary group in perturbation_covariate_reps
     n_sample_covariates : 0..1,
     split_covariates : {<<>>, <<"split">>},
     max_combination_length : {None} \cup {Some(n) : n \in 1..MaxComb}]

\* the sample_rep argument (data.py:441)
SampleReps ==
    {[type |-> "str", key |-> "X", in_obsm |-> FALSE],
     [type |-> "str", key |-> "X_pca", in_obsm |-> TRUE],
     [type |-> "str", key |-> "X_umap", in_obsm |-> FALSE],
     [type |-> "dict", entries |-> 0],
     [type |-> "dict", entries |-> 1],
     [type |-> "dict", entries |-> 2],
     [type |-> "other"]}

\* data.py:526-528: the cells whose split covariates equal the combination;
\* with no split covariates the comparison is over no column and holds of
\* every cell
split_cov_mask(obs, split_combination) ==
    {c \in DOMAIN obs : split_combination = NoSplit \/ obs[c].split = split_combination}

\* data.py:538-541
tgt_mask_ignoring_split(obs, tgt_cond, split_combination) ==
    {c \in DOMAIN obs : obs[c].pert = tgt_cond}

tgt_mask(obs, tgt_cond, split_combination) ==
    {c \in DOMAIN obs : obs[c].pert = tgt_cond} \cap split_cov_mask(obs, split_combination)

InitTrain ==
    /\ adata \in Datasets
    /\ args \in TrainArgs
    /\ pc = "start"
    /\ error = "none"
    /\ primary_encoder = [kind |-> "None", n_categories |-> 0, is_cat |-> FALSE]
    /\ max_combination_length = 0
    /\ split_cov_combs = <<>>
    /\ perturb_covar_df = <<>>
    /\ split_i = 1
    /\ tgt_i = 1
    /\ src_counter = 0
    /\ tgt_counter = 0
    /\ split_covariates_mask = <<>>
    /\ split_idx_to_covariates = <<>>
    /\ perturbation_covariates_mask = <<>>
    /\ perturbation_idx_to_covariates = <<>>
    /\ condition_data = <<>>
    /\ conditional_distributions = <<>>
    /\ control_to_perturbation = <<>>

\* data.py:470-522: verification and set-up, up to the first loop
Setup ==
    /\ TrainOnly
    /\ pc = "start"
    /\ LET e1 == _verify_control_data(adata, args.control_key_in_obs)
           e2 == _verify_perturbation_covariates(args.perturbation_covariates)
           e3 == _verify_linked_covars(args.perturbation_covariates)
           err == IF e1 # "none" THEN e1 ELSE IF e2 # "none" THEN e2 ELSE e3
           G == Len(args.perturbation_covariates)
       IN IF err # "none"
          THEN /\ pc' = "raised"
               /\ error' = err
               /\ UNCHANGED <<primary_encoder, max_combination_length, split_cov_combs,
                              perturb_covar_df, split_covariates_mask,
                              perturbation_covariates_mask, condition_data>>
          ELSE /\ pc' = "split_loop"
               /\ error' = "none"
               /\ max_combination_length' =
                      _get_max_combination_length(args.perturbation_covariates,
                                                  args.max_combination_length)
               /\ primary_encoder' =
                      _get_primary_covar_encoder(args.perturbation_covariates,
                                                 args.primary_is_categorical,
                                                 args.primary_has_rep)
               /\ split_cov_combs' =
                      IF Len(args.split_covariates) > 0
                      THEN drop_duplicates([c \in DOMAIN adata |-> adata[c].split])
                      ELSE <<NoSplit>>
               /\ perturb_covar_df' =
                      drop_duplicates([c \in DOMAIN adata |-> adata[c].pert])
               /\ split_covariates_mask' = [c \in DOMAIN adata |-> -1]
               /\ perturbation_covariates_mask' = [c \in DOMAIN adata |-> -1]
               /\ condition_data' =
                      [g \in 1..(G + args.n_sample_covariates) |-> <<>>]
    /\ UNCHANGED <<adata, args, split_i, tgt_i, src_counter, tgt_counter,
                   split_idx_to_covariates, perturbation_idx_to_covariates,
                   conditional_distributions, control_to_perturbation>>

\* data.py:524-533: the head of one iteration of the loop over splits
SplitBegin ==
    /\ TrainOnly
    /\ pc = "split_loop"
    /\ split_i <= Len(split_cov_combs)
    /\ LET split_combination == split_cov_combs[split_i]
       IN /\ split_covariates_mask' =
                 [c \in DOMAIN adata |->
                     IF c \in split_cov_mask(adata, split_combination)
                     THEN src_counter ELSE split_covariates_mask[c]]
          /\ split_idx_to_covariates' =
                 SetItem(split_idx_to_covariates, src_counter, split_combination)
    /\ src_counter' = src_counter + 1
    /\ conditional_distributions' = <<>>
    /\ tgt_i' = 1
    /\ pc' = "tgt_loop"
    /\ UNCHANGED <<adata, args, error, primary_encoder, max_combination_length,
                   split_cov_combs, perturb_covar_df, split_i, tgt_counter,
                   perturbation_covariates_mask, perturbation_idx_to_covariates,
                   condition_data, control_to_perturbation>>

\* data.py:536-565: one iteration of the loop over target conditions
TgtIter ==
    /\ TrainOnly
    /\ pc = "tgt_loop"
    /\ tgt_i <= Len(perturb_covar_df)
    /\ LET tgt_cond == perturb_covar_df[tgt_i]
           mask == tgt_mask(adata, tgt_cond, split_cov_combs[split_i])
           embedding ==
               _get_perturbation_covariates(
                   args.perturbation_covariates, args.n_sample_covariates,
                   _get_linked_covariates(args.perturbation_covariates),
                   primary_encoder, max_combination_length, NullValue)
       IN IF Cardinality(mask) = 0
          THEN /\ tgt_i' = tgt_i + 1                          \* continue
               /\ UNCHANGED <<pc, error, tgt_counter, perturbation_covariates_mask,
                              perturbation_idx_to_covariates, condition_data,
                              conditional_distributions>>
          ELSE /\ conditional_distributions' =
                      Append(conditional_distributions, tgt_counter)
               /\ perturbation_covariates_mask' =
                      [c \in DOMAIN adata |->
                          IF c \in mask THEN tgt_counter
                          ELSE perturbation_covariates_mask[c]]
               /\ perturbation_idx_to_covariates' =
                      SetItem(perturbation_idx_to_covariates, tgt_counter, tgt_cond)
               /\ IF embedding.err # "none"
                  THEN /\ pc' = "raised"
                       /\ error' = embedding.err
                       /\ UNCHANGED <<tgt_i, tgt_counter, condition_data>>
                  ELSE /\ condition_data' =
                              [g \in DOMAIN condition_data |->
                                  Append(condition_data[g], embedding.val[g])]
                       /\ tgt_counter' = tgt_counter + 1
                       /\ tgt_i' = tgt_i + 1
                       /\ UNCHANGED <<pc, error>>
    /\ UNCHANGED <<adata, args, primary_encoder, max_combination_length,
                   split_cov_combs, perturb_covar_df, split_i, src_counter,
                   split_covariates_mask, split_idx_to_covariates,
                   control_to_perturbation>>

\* data.py:567-568: the tail of one iteration of the loop over splits
SplitEnd ==
    /\ TrainOnly
    /\ pc = "tgt_loop"
    /\ tgt_i > Len(perturb_covar_df)
    /\ control_to_perturbation' =
           SetItem(control_to_perturbation, src_counter, conditional_distributions)
    /\ src_counter' = src_counter + 1
    /\ split_i' = split_i + 1
    /\ pc' = "split_loop"
    /\ UNCHANGED <<adata, args, error, primary_encoder, max_combination_length,
                   split_cov_combs, perturb_covar_df, tgt_i, tgt_counter,
                   split_covariates_mask, split_idx_to_covariates,
                   perturbation_covariates_mask, perturbation_idx_to_covariates,
                   condition_data, conditional_distributions>>

\* data.py:570-583: jnp.array of every embedding list (the list of the
\* embeddings, all of one shape, is the 3-D array), _get_cell_data on the
\* sample_rep argument, and the container
Return ==
    /\ TrainOnly
    /\ pc = "split_loop"
    /\ split_i > Len(split_cov_combs)
    /\ \E sample_rep \in SampleReps :
          LET e == _get_cell_data(sample_rep)
          IN /\ pc' = IF e = "none" THEN "returned" ELSE "raised"
             /\ error' = e
    /\ UNCHANGED <<adata, args, primary_encoder, max_combination_length,
                   split_cov_combs, perturb_covar_df, split_i, tgt_i, src_counter,
                   tgt_counter, split_covariates_mask, split_idx_to_covariates,
                   perturbation_covariates_mask, perturbation_idx_to_covariates,
                   condition_data, conditional_distributions,
                   control_to_perturbation>>



(***************************************************************************)
(* ValidationData.load_from_adata (data.py:637-808).                       *)
(*                                                                         *)
(* Every call raises before the assembly loops: _verify_control_data is    *)
(* given the (column, value) pair as the key to look up in adata.obs       *)
(* (data.py:677, 87), and the class defines no                             *)
(* _verify_obs_perturbation_covariates (data.py:679).  The statements      *)
(* after data.py:679 are therefore never run and have no action.           *)
(***************************************************************************)
CONTROL_HELPER == "<control_helper>"            \* cfp._constants.CONTROL_HELPER

ObsColumns == {"control", "split", "pert"}      \* the columns of adata.obs

\* the dtype of the control column: numpy bool or pandas' nullable boolean
ControlDtypes == {"bool", "boolean"}
ObsDtypes ==
    {[c \in ObsColumns |-> IF c = "control" THEN d ELSE "object"] : d \in ControlDtypes}

\* data.py:88-90: a control column that is not of pandas' BooleanDtype is
\* replaced, in adata.obs, by its conversion to it
_control_dtype_verified(dtype) == IF dtype # "boolean" THEN "boolean" ELSE dtype

ValidArgs ==
    [split_covariates : {[is_none |-> TRUE, list |-> <<>>],
                         [is_none |-> FALSE, list |-> <<>>],
                         [is_none |-> FALSE, list |-> <<"split">>]},
     \* control_data as documented, a (column, value) pair, or a bare column name
     control_data : {[type |-> "pair", column |-> "control"],
                     [type |-> "str", column |-> "control"]},
     \* the lengths of the tuples of obs_perturbation_covariates
     obs_perturbation_covariates :
         UNION {[1..n -> 1..MaxGroupLen] : n \in 0..1},
     \* the lengths of the values of uns_perturbation_covariates
     uns_perturbation_covariates :
         UNION {[1..n -> 1..MaxGroupLen] : n \in 0..1},
     max_combination_length : 1..MaxComb]

InitValid ==
    /\ v_adata \in Datasets
    /\ v_obs_columns = ObsColumns
    /\ v_obs_dtypes \in ObsDtypes
    /\ v_args \in ValidArgs
    /\ v_pc = "start"
    /\ v_error = "none"
    /\ v_raised_in = "none"
    /\ v_split_covariates = <<>>
    /\ v_src_data = <<>>
    /\ v_tgt_data = <<>>
    /\ v_condition_data = <<>>

IdleValid ==
    /\ v_adata = <<>>
    /\ v_obs_columns = {}
    /\ v_obs_dtypes = <<>>
    /\ v_args = <<>>
    /\ v_pc = "idle"
    /\ v_error = "none"
    /\ v_raised_in = "none"
    /\ v_split_covariates = <<>>
    /\ v_src_data = <<>>
    /\ v_tgt_data = <<>>
    /\ v_condition_data = <<>>

\* data.py:671-674: with no split covariates the helper column is written
\* into the caller's adata.obs, as a categorical column, and becomes the only
\* split covariate
InjectControlHelper ==
    /\ ValidOnly
    /\ v_pc = "start"
    /\ IF v_args.split_covariates.is_none \/ Len(v_args.split_covariates.list) = 0
       THEN /\ v_obs_columns' = v_obs_columns \cup {CONTROL_HELPER}
            /\ v_obs_dtypes' = SetItem(v_obs_dtypes, CONTROL_HELPER, "category")
            /\ v_split_covariates' = <<CONTROL_HELPER>>
       ELSE /\ v_split_covariates' = v_args.split_covariates.list
            /\ UNCHANGED <<v_obs_columns, v_obs_dtypes>>
    /\ v_pc' = "verify_control"
    /\ UNCHANGED <<v_adata, v_args, v_error, v_raised_in, v_src_data, v_tgt_data,
                   v_condition_data>>

\* data.py:677: _verify_control_data(adata, control_data).  The key looked up
\* in adata.obs is control_data itself; a (column, value) pair is the label
\* of no column.  A column that is found is converted in place
\* (data.py:88-90) before its control cells are counted.
VerifyControlData ==
    /\ ValidOnly
    /\ v_pc = "verify_control"
    /\ LET key_in_obs == /\ v_args.control_data.type = "str"
                         /\ v_args.control_data.column \in v_obs_columns
           e == _verify_control_data(v_adata, key_in_obs)
       IN /\ v_error' = e
          /\ v_raised_in' = IF e = "none" THEN "none" ELSE "_verify_control_data"
          /\ v_pc' = IF e = "none" THEN "verify_obs" ELSE "raised"
          /\ v_obs_dtypes' =
                 IF key_in_obs
                 THEN SetItem(v_obs_dtypes, v_args.control_data.column,
                              _control_dtype_verified(
                                  v_obs_dtypes[v_args.control_data.column]))
                 ELSE v_obs_dtypes
    /\ UNCHANGED <<v_adata, v_obs_columns, v_args, v_split_covariates, v_src_data,
                   v_tgt_data, v_condition_data>>

\* data.py:678-679: cls._verify_obs_perturbation_covariates is an attribute
\* neither ValidationData nor its bases define
VerifyObsPerturbationCovariates ==
    /\ ValidOnly
    /\ v_pc = "verify_obs"
    /\ v_error' = "AttributeError"
    /\ v_raised_in' = "_verify_obs_perturbation_covariates"
    /\ v_pc' = "raised"
    /\ UNCHANGED <<v_adata, v_obs_columns, v_obs_dtypes, v_args, v_split_covariates,
                   v_src_data, v_tgt_data, v_condition_data>>

(***************************************************************************)
(* ComputeMetrics (callbacks.py:100-188).                                  *)
(***************************************************************************)
MaxMetrics == 2         \* names in the metrics argument
MaxDatasets == 1        \* named validation datasets

\* callbacks.py:100-105: the keys of metric_to_func
metric_to_func == {"r_squared", "mmd", "sinkhorn_div", "e_distance"}

MetricNames == metric_to_func \cup {"unknown_metric"}
Aggregations == {"mean", "median"}
DatasetName == <<"val", "test", "ood">>         \* the keys of the data mapping

\* callbacks.py:130-132
_aggregation_func(metric_aggregation) ==
    IF metric_aggregation = "median" THEN "np.median" ELSE "np.mean"

\* callbacks.py:135: the test of one name of the metrics argument
_metric_rejected_first_only(metrics, i) == i = 1 /\ metrics[i] \notin metric_to_func

_metric_rejected(metrics, i) == metrics[i] \notin metric_to_func

\* callbacks.py:143-173.  validation_data maps a dataset name to the object
\* stored under it, a ValidationData or a plain dict (which has no tgt_data).
\* Result: [err, val]; val maps <<k, metric>> (the key f"{k}_{metric}") to the
\* aggregate computed, named by the aggregation function, the dataset and
\* the metric.
ComputeMetrics_on_log_iteration(self, validation_data) ==
    IF Len(self.metrics) > 0 /\ \E k \in DOMAIN validation_data : validation_data[k] = "dict"
    THEN [err |-> "AttributeError", val |-> <<>>]
    ELSE [err |-> "none",
          val |-> [key \in (DOMAIN validation_data \cup {"train"}) \X Range(self.metrics) |->
                      <<self._aggregation_func, key[1], key[2]>>]]

\* callbacks.py:175-188: self.on_log_iteration(validation_data, predicted_data)
\* leaves out the required training_data argument
ComputeMetrics_on_train_end(self, validation_data) ==
    [err |-> "TypeError", val |-> <<>>]

ValidationDataSets ==
    UNION {[{DatasetName[i] : i \in 1..n} -> {"ValidationData"}] : n \in 0..MaxDatasets}

InitMetrics ==
    /\ cm_args \in [metrics : UNION {[1..n -> MetricNames] : n \in 0..MaxMetrics},
                    metric_aggregation : Aggregations]
    /\ cm_pc = "new"
    /\ cm_i = 1
    /\ cm_self = <<>>
    /\ cm_error = "none"
    /\ cm_call = "none"
    /\ cm_result = <<>>

IdleMetrics ==
    /\ cm_args = <<>>
    /\ cm_pc = "idle"
    /\ cm_i = 1
    /\ cm_self = <<>>
    /\ cm_error = "none"
    /\ cm_call = "none"
    /\ cm_result = <<>>

\* callbacks.py:128-132
CM_Assign ==
    /\ MetricsOnly
    /\ cm_pc = "new"
    /\ cm_self' = [metrics |-> cm_args.metrics,
                   metric_aggregation |-> cm_args.metric_aggregation,
                   _aggregation_func |-> _aggregation_func(cm_args.metric_aggregation)]
    /\ cm_i' = 1
    /\ cm_pc' = "init_loop"
    /\ UNCHANGED <<cm_args, cm_error, cm_call, cm_result>>

\* callbacks.py:133-138: one iteration of the loop over the metric names
CM_CheckMetric ==
    /\ MetricsOnly
    /\ cm_pc = "init_loop"
    /\ cm_i <= Len(cm_self.metrics)
    /\ IF _metric_rejected(cm_self.metrics, cm_i)
       THEN /\ cm_pc' = "raised"
            /\ cm_error' = "ValueError"
            /\ UNCHANGED cm_i
       ELSE /\ cm_i' = cm_i + 1
            /\ UNCHANGED <<cm_pc, cm_error>>
    /\ UNCHANGED <<cm_args, cm_self, cm_call, cm_result>>

\* callbacks.py:133: the loop is exhausted, __init__ returns the object
CM_Constructed ==
    /\ MetricsOnly
    /\ cm_pc = "init_loop"
    /\ cm_i > Len(cm_self.metrics)
    /\ cm_pc' = "constructed"
    /\ UNCHANGED <<cm_args, cm_i, cm_self, cm_error, cm_call, cm_result>>

\* callbacks.py:143-173, called on the constructed object
CM_on_log_iteration ==
    /\ MetricsOnly
    /\ cm_pc = "constructed"
    /\ \E validation_data \in ValidationDataSets :
          cm_result' = ComputeMetrics_on_log_iteration(cm_self, validation_data)
    /\ cm_call' = "on_log_iteration"
    /\ UNCHANGED <<cm_args, cm_pc, cm_i, cm_self, cm_error>>

\* callbacks.py:175-188, called on the constructed object
CM_on_train_end ==
    /\ MetricsOnly
    /\ cm_pc = "constructed"
    /\ \E validation_data \in ValidationDataSets :
          cm_result' = ComputeMetrics_on_train_end(cm_self, validation_data)
    /\ cm_call' = "on_train_end"
    /\ UNCHANGED <<cm_args, cm_pc, cm_i, cm_self, cm_error>>

(***************************************************************************)
(* CallbackRunner (callbacks.py:262-372).                                  *)
(***************************************************************************)
MaxCallbacks == 3       \* callbacks given to the runner
MaxLogIterations == 1   \* on_log_iteration calls of one training run

\* The callback objects a runner is given.  ComputeMetrics objects are
\* constructed ones (their metrics are supported); WandbLogger is the
\* logging callback of callbacks.py:191-259; UserLogger is a LoggingCallback
\* subclass of the caller's whose hooks return normally.
ComputeMetricsObject(metrics, metric_aggregation) ==
    [cls |-> "ComputeMetrics", metrics |-> metrics,
     _aggregation_func |-> _aggregation_func(metric_aggregation)]
ComputeMetricsObjects ==
    {ComputeMetricsObject(<<>>, "mean"),
     ComputeMetricsObject(<<"mmd">>, "mean"),
     ComputeMetricsObject(<<"mmd">>, "median"),
     ComputeMetricsObject(<<"r_squared", "mmd">>, "mean")}
LoggerObjects ==
    {[cls |-> c, metrics |-> <<>>, _aggregation_func |-> "none"] :
        c \in {"WandbLogger", "UserLogger"}}
CallbackObjects == ComputeMetricsObjects \cup LoggerObjects

isComputationCallback(c) == c.cls = "ComputeMetrics"
isLoggingCallback(c) == c.cls \in {"WandbLogger", "UserLogger"}

\* the sample counts a validation dataset is configured with
SampleCounts == {-1, 0, 2}
ValidationDataObjects ==
    [n_conditions_on_log_iteration : SampleCounts,
     n_conditions_on_train_end : SampleCounts]

\* Python's a & b on non-negative integers
RECURSIVE BitAnd(_, _)
BitAnd(a, b) ==
    IF a = 0 \/ b = 0 THEN 0
    ELSE (a % 2) * (b % 2) + 2 * BitAnd(a \div 2, b \div 2)

\* callbacks.py:292: len(cc) == 0 & len(lc) != 0.  & binds tighter than the
\* comparisons, which then chain: len(cc) == (0 & len(lc)) and (0 & len(lc)) != 0
_no_computation_callbacks(n_computation, n_logging) ==
    /\ n_computation = BitAnd(0, n_logging)
    /\ BitAnd(0, n_logging) # 0

\* dict_to_log.update(results), callbacks.py:344 and 367
dict_update_keep_first(d, results) == Merge(results, d)

dict_update(d, results) == Merge(d, results)

\* callbacks.py:301-306: the stage selects the attribute read
n_conditions_to_sample(stage, val_data) ==
    IF stage = "on_train_end" THEN val_data.n_conditions_on_train_end
    ELSE val_data.n_conditions_on_log_iteration

\* callbacks.py:339 and 363: the stage each hook passes to _sample_validation_data
_stage_of_hook(hook) == "on_log_iteration"

\* callbacks.py:297-318.  data is the list of the named datasets in the
\* mapping's order.  A dataset configured with -1 is passed on as it is.  For
\* another count n, rng.choice draws n indices and the comprehension of
\* callbacks.py:315-317 indexes the dataset's name and subscripts the
\* ValidationData with the character: with n = 0 it builds an empty dict,
\* with n > 0 it raises.  Result: [err, n_used, val]; n_used holds the counts
\* read up to the exception.
RECURSIVE _sample_validation_data(_, _)
_sample_validation_data(stage, data) ==
    IF data = <<>> THEN [err |-> FALSE, n_used |-> <<>>, val |-> <<>>]
    ELSE LET k == Len(data)
             before == _sample_validation_data(stage, SubSeq(data, 1, k - 1))
             n == n_conditions_to_sample(stage, data[k])
         IN IF before.err THEN before
            ELSE [err |-> n \notin {-1, 0},
                  n_used |-> SetItem(before.n_used, DatasetName[k], n),
                  val |-> IF n = -1
                          THEN SetItem(before.val, DatasetName[k], "ValidationData")
                          ELSE IF n = 0
                          THEN SetItem(before.val, DatasetName[k], "dict")
                          ELSE before.val]

\* the exceptions callbacks.py:312-317 raises for a count above 0: ValueError
\* (rng.choice, more indices than conditions), IndexError (an index past the
\* end of the dataset's name), TypeError (ValidationData has no __getitem__)
SampleErrors == {"ValueError", "IndexError", "TypeError"}

InitRunner ==
    /\ r_callbacks \in UNION {[1..n -> CallbackObjects] : n \in 0..MaxCallbacks}
    /\ r_data \in UNION {[1..n -> ValidationDataObjects] : n \in 0..MaxDatasets}
    /\ r_pc = "new"
    /\ r_hook = "none"
    /\ r_self = <<>>
    /\ r_i = 1
    /\ r_n_used = <<>>
    /\ r_validation_data = <<>>
    /\ r_dict_to_log = <<>>
    /\ r_calls = <<>>
    /\ r_returned = None
    /\ r_error = "none"
    /\ r_log_iterations = 0

IdleRunner ==
    /\ r_callbacks = <<>>
    /\ r_data = <<>>
    /\ r_pc = "idle"
    /\ r_hook = "none"
    /\ r_self = <<>>
    /\ r_i = 1
    /\ r_n_used = <<>>
    /\ r_validation_data = <<>>
    /\ r_dict_to_log = <<>>
    /\ r_calls = <<>>
    /\ r_returned = None
    /\ r_error = "none"
    /\ r_log_iterations = 0

NC == Len(r_self.computation_callbacks)
NL == Len(r_self.logging_callbacks)

\* callbacks.py:276-295
CallbackRunner_init ==
    /\ RunnerOnly
    /\ r_pc = "new"
    /\ LET cc == SelectSeq(r_callbacks, isComputationCallback)
           lc == SelectSeq(r_callbacks, isLoggingCallback)
       IN /\ r_self' = [validation_data |-> r_data,
                        computation_callbacks |-> cc,
                        logging_callbacks |-> lc]
          /\ IF _no_computation_callbacks(Len(cc), Len(lc))
             THEN r_pc' = "raised" /\ r_error' = "ValueError"
             ELSE r_pc' = "constructed" /\ r_error' = "none"
    /\ UNCHANGED <<r_callbacks, r_data, r_hook, r_i, r_n_used, r_validation_data,
                   r_dict_to_log, r_calls, r_returned, r_log_iterations>>

\* The training loop calls a hook of the runner: on_train_begin once, then
\* on_log_iteration periodically, then on_train_end.
CallHook ==
    /\ RunnerOnly
    /\ \/ r_pc = "constructed" /\ r_hook' = "on_train_begin"
       \/ r_pc = "training" /\ r_log_iterations < MaxLogIterations
                            /\ r_hook' = "on_log_iteration"
       \/ r_pc = "training" /\ r_hook' = "on_train_end"
    /\ r_pc' = IF r_hook' = "on_train_begin" THEN "callbacks" ELSE "sample"
    /\ r_i' = 1
    /\ r_n_used' = <<>>
    /\ r_validation_data' = <<>>
    /\ r_dict_to_log' = <<>>
    /\ r_calls' = <<>>
    /\ r_returned' = None
    /\ UNCHANGED <<r_callbacks, r_data, r_self, r_error, r_log_iterations>>

\* callbacks.py:339-340 and 362-363: the call of _sample_validation_data
SampleValidationData ==
    /\ RunnerOnly
    /\ r_pc = "sample"
    /\ LET sampled == _sample_validation_data(_stage_of_hook(r_hook), r_self.validation_data)
       IN /\ r_n_used' = sampled.n_used
          /\ IF sampled.err
             THEN /\ r_pc' = "raised"
                  /\ r_error' \in SampleErrors
                  /\ UNCHANGED r_validation_data
             ELSE /\ r_pc' = "callbacks"
                  /\ r_validation_data' = sampled.val
                  /\ UNCHANGED r_error
    /\ UNCHANGED <<r_callbacks, r_data, r_hook, r_self, r_i, r_dict_to_log, r_calls,
                   r_returned, r_log_iterations>>

\* callbacks.py:322-323, 342-344 and 365-367: one iteration of the loop over
\* the computation callbacks.  on_train_begin calls the callback's
\* on_train_begin with no argument; both other hooks call its on_log_iteration.
RunComputationCallback ==
    /\ RunnerOnly
    /\ r_pc = "callbacks"
    /\ r_i <= NC
    /\ LET callback == r_self.computation_callbacks[r_i]
           results == ComputeMetrics_on_log_iteration(callback, r_validation_data)
       IN IF r_hook = "on_train_begin"
          THEN /\ r_calls' = Append(r_calls, [list |-> "computation", index |-> r_i,
                                              method |-> "on_train_begin", data |-> None])
               /\ r_i' = r_i + 1
               /\ UNCHANGED <<r_pc, r_error, r_dict_to_log>>
          ELSE /\ r_calls' = Append(r_calls, [list |-> "computation", index |-> r_i,
                                              method |-> "on_log_iteration",
                                              data |-> Some(r_validation_data)])
               /\ IF results.err # "none"
                  THEN /\ r_pc' = "raised"
                       /\ r_error' = results.err
                       /\ UNCHANGED <<r_i, r_dict_to_log>>
                  ELSE /\ r_dict_to_log' = dict_update(r_dict_to_log, results.val)
                       /\ r_i' = r_i + 1
                       /\ UNCHANGED <<r_pc, r_error>>
    /\ UNCHANGED <<r_callbacks, r_data, r_hook, r_self, r_n_used, r_validation_data,
                   r_returned, r_log_iterations>>

\* callbacks.py:325-326, 346-347 and 369-370: one iteration of the loop over
\* the logging callbacks.  Every hook of WandbLogger reads the global names
\* wandb / omegaconf, which the imports in the class body (callbacks.py:210-221)
\* do not bind: it raises NameError.
RunLoggingCallback ==
    /\ RunnerOnly
    /\ r_pc = "callbacks"
    /\ r_i > NC
    /\ r_i <= NC + NL
    /\ LET callback == r_self.logging_callbacks[r_i - NC]
       IN /\ r_calls' =
                 Append(r_calls,
                        [list |-> "logging", index |-> r_i - NC,
                         method |-> IF r_hook = "on_train_begin"
                                    THEN "on_train_begin" ELSE "on_log_iteration",
                         data |-> IF r_hook = "on_train_begin"
                                  THEN None ELSE Some(r_dict_to_log)])
          /\ IF callback.cls = "WandbLogger"
             THEN /\ r_pc' = "raised"
                  /\ r_error' = "NameError"
                  /\ UNCHANGED r_i
             ELSE /\ r_i' = r_i + 1
                  /\ UNCHANGED <<r_pc, r_error>>
    /\ UNCHANGED <<r_callbacks, r_data, r_hook, r_self, r_n_used, r_validation_data,
                   r_dict_to_log, r_returned, r_log_iterations>>

\* callbacks.py:326 (falls off the end), 349 and 372: the hook returns
HookReturn ==
    /\ RunnerOnly
    /\ r_pc = "callbacks"
    /\ r_i > NC + NL
    /\ r_returned' = IF r_hook = "on_train_begin" THEN None ELSE Some(r_dict_to_log)
    /\ r_pc' = IF r_hook = "on_train_end" THEN "finished" ELSE "training"
    /\ r_log_iterations' = IF r_hook = "on_log_iteration"
                           THEN r_log_iterations + 1 ELSE r_log_iterations
    /\ UNCHANGED <<r_callbacks, r_data, r_hook, r_self, r_i, r_n_used,
                   r_validation_data, r_dict_to_log, r_calls, r_error>>

(***************************************************************************)
(* The PerturbationData helpers called on their own, on arguments of the   *)
(* shapes their callers pass.                                              *)
(***************************************************************************)
MaxRows == 2            \* rows of an array argument
MaxFeatures == 2        \* columns of an array argument

Entries == {DataValue, NullValue}
Vectors == UNION {[1..f -> Entries] : f \in 1..MaxFeatures}
Arrays2D == UNION {[1..r -> [1..f -> Entries]] : r \in 1..MaxRows, f \in 1..MaxFeatures}
AnyRankArrays ==
    {[ndim |-> 0, scalar |-> e] : e \in Entries}
        \cup {[ndim |-> 1, entries |-> v] : v \in Vectors}
        \cup {[ndim |-> 2, rows |-> a] : a \in Arrays2D}
        \cup {[ndim |-> 3, blocks |-> <<a>>] : a \in Arrays2D}

HelperCalls ==
    {[fn |-> "_pad_to_max_length", arr |-> a, mcl |-> l, null_value |-> v] :
        a \in Arrays2D, l \in 0..(MaxRows + 1), v \in Entries}
        \cup {[fn |-> "_check_shape", x |-> a] : a \in AnyRankArrays}
        \cup {[fn |-> "_get_linked_covariates", perturb_covariates |-> g] :
                 g \in CovariateGroups}
        \cup {[fn |-> "_get_cell_data", sample_rep |-> r] : r \in SampleReps}

InitHelpers ==
    /\ h_call \in HelperCalls
    /\ h_pc = "new"
    /\ h_result = <<>>
    /\ h_again = <<>>

IdleHelpers ==
    /\ h_call = <<>>
    /\ h_pc = "idle"
    /\ h_result = <<>>
    /\ h_again = <<>>

\* data.py:288-297
Call_pad_to_max_length ==
    /\ HelperOnly
    /\ h_pc = "new"
    /\ h_call.fn = "_pad_to_max_length"
    /\ h_result' = [err |-> "none",
                    val |-> _pad_to_max_length(h_call.arr, h_call.mcl, h_call.null_value)]
    /\ h_pc' = "called"
    /\ UNCHANGED <<h_call, h_again>>

\* data.py:288-297, on the array the first call returned
Call_pad_to_max_length_again ==
    /\ HelperOnly
    /\ h_pc = "called"
    /\ h_call.fn = "_pad_to_max_length"
    /\ h_again' = [err |-> "none",
                   val |-> _pad_to_max_length(h_result.val, h_call.mcl, h_call.null_value)]
    /\ h_pc' = "called again"
    /\ UNCHANGED <<h_call, h_result>>

\* data.py:255-276
Call_check_shape ==
    /\ HelperOnly
    /\ h_pc = "new"
    /\ h_call.fn = "_check_shape"
    /\ h_result' = _check_shape_any_rank(h_call.x)
    /\ h_pc' = "called"
    /\ UNCHANGED <<h_call, h_again>>

\* data.py:154-166: _verify_linked_covars, then the mapping
Call_get_linked_covariates ==
    /\ HelperOnly
    /\ h_pc = "new"
    /\ h_call.fn = "_get_linked_covariates"
    /\ LET e == _verify_linked_covars(h_call.perturb_covariates)
       IN h_result' = [err |-> e,
                       val |-> IF e = "none"
                               THEN _get_linked_covariates(h_call.perturb_covariates)
                               ELSE <<>>]
    /\ h_pc' = "called"
    /\ UNCHANGED <<h_call, h_again>>

\* data.py:64-83
Call_get_cell_data ==
    /\ HelperOnly
    /\ h_pc = "new"
    /\ h_call.fn = "_get_cell_data"
    /\ h_result' = [err |-> _get_cell_data(h_call.sample_rep), val |-> <<>>]
    /\ h_pc' = "called"
    /\ UNCHANGED <<h_call, h_again>>

(***************************************************************************)
(* The specifications.                                                     *)
(***************************************************************************)
IdleTrain ==
    /\ adata = <<>>
    /\ args = <<>>
    /\ pc = "idle"
    /\ error = "none"
    /\ primary_encoder = <<>>
    /\ max_combination_length = 0
    /\ split_cov_combs = <<>>
    /\ perturb_covar_df = <<>>
    /\ split_i = 1
    /\ tgt_i = 1
    /\ src_counter = 0
    /\ tgt_counter = 0
    /\ split_covariates_mask = <<>>
    /\ split_idx_to_covariates = <<>>
    /\ perturbation_covariates_mask = <<>>
    /\ perturbation_idx_to_covariates = <<>>
    /\ condition_data = <<>>
    /\ conditional_distributions = <<>>
    /\ control_to_perturbation = <<>>

InitSpecTrain == InitTrain /\ IdleValid /\ IdleMetrics /\ IdleRunner /\ IdleHelpers
InitSpecValid == IdleTrain /\ InitValid /\ IdleMetrics /\ IdleRunner /\ IdleHelpers
InitSpecMetrics == IdleTrain /\ IdleValid /\ InitMetrics /\ IdleRunner /\ IdleHelpers
InitSpecRunner == IdleTrain /\ IdleValid /\ IdleMetrics /\ InitRunner /\ IdleHelpers
InitSpecHelpers == IdleTrain /\ IdleValid /\ IdleMetrics /\ IdleRunner /\ InitHelpers

NextTrain == Setup \/ SplitBegin \/ TgtIter \/ SplitEnd \/ Return

NextValid ==
    InjectControlHelper \/ VerifyControlData \/ VerifyObsPerturbationCovariates

NextMetrics ==
    CM_Assign \/ CM_CheckMetric \/ CM_Constructed \/ CM_on_log_iteration
        \/ CM_on_train_end

NextRunner ==
    CallbackRunner_init \/ CallHook \/ SampleValidationData
        \/ RunComputationCallback \/ RunLoggingCallback \/ HookReturn

NextHelpers ==
    Call_pad_to_max_length \/ Call_pad_to_max_length_again \/ Call_check_shape
        \/ Call_get_linked_covariates \/ Call_get_cell_data

SpecTrain == InitSpecTrain /\ [][NextTrain]_vars
SpecValid == InitSpecValid /\ [][NextValid]_vars
SpecMetrics == InitSpecMetrics /\ [][NextMetrics]_vars
SpecRunner == InitSpecRunner /\ [][NextRunner]_vars
SpecHelpers == InitSpecHelpers /\ [][NextHelpers]_vars

(***************************************************************************)
(* Properties of TrainingData.load_from_adata (under SpecTrain).           *)
(***************************************************************************)
\* the population indices a mask holds
MaskIndices(mask) == Range(mask) \ {-1}

\* the places <<control index, position>> of control_to_perturbation
ReachablePlaces ==
    UNION {{<<k, i>> : i \in DOMAIN control_to_perturbation[k]} :
              k \in DOMAIN control_to_perturbation}

\* C1: in every returned container each target index of
\* perturbation_covariates_mask is an element of exactly one array of
\* control_to_perturbation, at exactly one position, and every element of
\* every such array is an index of the mask.
C1_TargetsReachableOnce ==
    pc = "returned" =>
        /\ \A t \in MaskIndices(perturbation_covariates_mask) :
              Cardinality({pl \in ReachablePlaces :
                              control_to_perturbation[pl[1]][pl[2]] = t}) = 1
        /\ \A pl \in ReachablePlaces :
              control_to_perturbation[pl[1]][pl[2]]
                  \in MaskIndices(perturbation_covariates_mask)

\* C1's case: a returned container with two control populations, each with
\* a target of its own
C1_Witness ==
    /\ pc = "returned"
    /\ Cardinality(DOMAIN control_to_perturbation) >= 2
    /\ \A k \in DOMAIN control_to_perturbation : Len(control_to_perturbation[k]) >= 1

\* C2: in every returned container the embedding array of every covariate
\* group has one entry per target population (first dimension) and
\* max_combination_length rows per entry (second dimension).
C2_EmbeddingShape ==
    pc = "returned" =>
        \A g \in DOMAIN condition_data :
            /\ Len(condition_data[g]) = Cardinality(DOMAIN perturbation_idx_to_covariates)
            /\ \A t \in DOMAIN condition_data[g] :
                  Len(condition_data[g][t]) = max_combination_length

\* C2's case: a linked group and a sample covariate, two targets, and a
\* primary group shorter than max_combination_length (rows are padded)
C2_Witness ==
    /\ pc = "returned"
    /\ Len(args.perturbation_covariates) = 2
    /\ args.n_sample_covariates = 1
    /\ Len(args.perturbation_covariates[1]) < max_combination_length
    /\ Cardinality(DOMAIN perturbation_idx_to_covariates) >= 2

\* the distinct covariate values of the cells that are not control cells
NonControlValues == {adata[c].pert : c \in {d \in DOMAIN adata : ~adata[d].control}}

\* C3: with control cells, no split covariates and one perturbation group
\* with k distinct non-control values, the returned container has one
\* control population, index 0, whose reachable-target array
\* control_to_perturbation[0] has length k, and k target populations.
C3_OneControlPopulation ==
    (/\ pc = "returned"
     /\ args.split_covariates = <<>>
     /\ Len(args.perturbation_covariates) = 1)
    => /\ DOMAIN split_idx_to_covariates = {0}
       /\ DOMAIN control_to_perturbation = {0}
       /\ Len(control_to_perturbation[0]) = Cardinality(NonControlValues)
       /\ Cardinality(DOMAIN perturbation_idx_to_covariates) = Cardinality(NonControlValues)

\* C19: once the set-up of load_from_adata has run, primary_encoder is None
\* when the primary group has a precomputed representation and otherwise the
\* pair (encoder, is_categorical), in the categorical as in the numeric case.
C19_EncoderIsPairOrNone ==
    pc \in {"split_loop", "tgt_loop", "returned"} =>
        /\ args.primary_has_rep => primary_encoder.kind = "None"
        /\ ~args.primary_has_rep =>
              /\ primary_encoder.kind = "pair"
              /\ primary_encoder.is_cat = args.primary_is_categorical

Min(S) == CHOOSE m \in S : \A k \in S : m <= k

\* the split combination of a cell, and the first cell of the dataset with
\* the same split combination / the same covariate combination
SplitOf(c) == IF args.split_covariates = <<>> THEN NoSplit ELSE adata[c].split
FirstInSplit(c) == Min({d \in DOMAIN adata : SplitOf(d) = SplitOf(c)})
FirstWithCovariates(c) == Min({d \in DOMAIN adata : adata[d].pert = adata[c].pert})

\* the population of c is enumerated before that of d: an earlier split or,
\* in the same split, a covariate combination that appears earlier
EnumeratedBefore(c, d) ==
    \/ FirstInSplit(c) < FirstInSplit(d)
    \/ FirstInSplit(c) = FirstInSplit(d) /\ FirstWithCovariates(c) < FirstWithCovariates(d)

\* C21: in every returned container the target indices are 0..n-1, n the
\* number of (split, covariate combination) pairs that have cells, assigned
\* in the order of the splits' first appearance and, within a split, of the
\* combinations' first appearance in the dataset.
C21_TargetIndexOrder ==
    pc = "returned" =>
        LET n == Cardinality({<<SplitOf(c), adata[c].pert>> : c \in DOMAIN adata})
        IN /\ DOMAIN perturbation_idx_to_covariates = 0..(n - 1)
           /\ \A c \in DOMAIN adata :
                 /\ perturbation_covariates_mask[c] \in 0..(n - 1)
                 /\ perturbation_idx_to_covariates[perturbation_covariates_mask[c]]
                        = adata[c].pert
           /\ \A c \in DOMAIN adata : \A d \in DOMAIN adata :
                 EnumeratedBefore(c, d) =>
                     perturbation_covariates_mask[c] < perturbation_covariates_mask[d]

\* C21's case: two splits, each without the combination the other has, and
\* the combination that sorts last appearing first
C21_Witness ==
    /\ pc = "returned"
    /\ args.split_covariates # <<>>
    /\ Cardinality(Range(split_covariates_mask)) = 2
    /\ DOMAIN perturbation_idx_to_covariates = {0, 1}
    /\ perturbation_idx_to_covariates[0] = "p2"
    /\ perturbation_idx_to_covariates[1] = "p1"

C25_TargetReachableFromOwnSplit ==
    pc = "returned" =>
        \A c \in DOMAIN adata :
            LET t == perturbation_covariates_mask[c]
                s == split_covariates_mask[c]
            IN t # -1 =>
                  /\ t \in DOMAIN perturbation_idx_to_covariates
                  /\ s # -1
                  /\ s \in DOMAIN control_to_perturbation
                  /\ t \in Range(control_to_perturbation[s])

(***************************************************************************)
(* Properties of ValidationData.load_from_adata (under SpecValid).         *)
(***************************************************************************)
ControlCells == {c \in DOMAIN v_adata : v_adata[c].control}

\* C10: called with split_covariates empty or None on a dataset with control
\* cells, ValidationData.load_from_adata returns a container with exactly one
\* source population, key 0 of src_data, holding all control cells.
C10_OneSourcePopulation ==
    (/\ v_pc \in {"raised", "returned"}
     /\ v_args.split_covariates.list = <<>>
     /\ ControlCells # {})
    => /\ v_pc = "returned"
       /\ DOMAIN v_src_data = {0}
       /\ v_src_data[0] = ControlCells

\* the call has ended, by returning or by raising
ValidOver == v_pc \in {"raised", "returned"}

\* the longest combination among obs_ and uns_perturbation_covariates
\* (data.py:685-696), 0 when there is none
ObservedCombinationLength ==
    Max({0} \cup Range(v_args.obs_perturbation_covariates)
            \cup Range(v_args.uns_perturbation_covariates))

\* the <<source index, target index>> pairs keyed in a two-level mapping
KeyPairs(d) == UNION {{<<s, t>> : t \in DOMAIN d[s]} : s \in DOMAIN d}

\* C11: with no perturbation covariates configured and control cells in the
\* dataset, ValidationData.load_from_adata returns a container whose
\* condition_data is None and whose src_data and tgt_data are populated.
C11_NoCovariatesNoConditionData ==
    (/\ ValidOver
     /\ v_args.obs_perturbation_covariates = <<>>
     /\ v_args.uns_perturbation_covariates = <<>>
     /\ ControlCells # {})
    => /\ v_pc = "returned"
       /\ v_condition_data = None
       /\ DOMAIN v_src_data # {}
       /\ DOMAIN v_tgt_data # {}

C20_DatasetReadOnly ==
    [][v_obs_columns' = v_obs_columns /\ v_obs_dtypes' = v_obs_dtypes]_vars

(***************************************************************************)
(* Properties of the PerturbationData helpers (under SpecHelpers).         *)
(***************************************************************************)
HelperCalled(fn) == h_call.fn = fn /\ h_pc \in {"called", "called again"}

\* C15: _pad_to_max_length applied to its own result returns that result,
\* and an array with at least max_combination_length rows is returned
\* unchanged, never truncated.
C15_PadIdempotent ==
    /\ (h_call.fn = "_pad_to_max_length" /\ h_pc = "called again")
          => h_again = h_result
    /\ (HelperCalled("_pad_to_max_length") /\ Len(h_call.arr) >= h_call.mcl)
          => h_result.val = h_call.arr

\* C15's case: an array shorter than max_combination_length was padded and
\* the padded array was padded again
C15_Witness ==
    /\ h_call.fn = "_pad_to_max_length"
    /\ h_pc = "called again"
    /\ Len(h_call.arr) < h_call.mcl
    /\ Len(h_result.val) = h_call.mcl
    /\ h_result.val # h_call.arr

\* C16: _check_shape turns a scalar into the (1, 1) array, a (F,) vector
\* into the (1, F) row (the output the (1, F) row itself gives), returns a
\* (1, F) array unchanged and a (F, 1) array transposed, so that every
\* accepted input gives exactly one row; a 2-D array with both dimensions
\* above 1 and an array of rank above 2 raise ValueError.
C16_CheckShapeGivesOneRow ==
    HelperCalled("_check_shape") =>
        LET a == h_call.x
        IN /\ h_result.err \in {"none", "ValueError"}
           /\ h_result.err = "none" => Len(h_result.val) = 1
           /\ a.ndim = 0 => h_result = [err |-> "none", val |-> <<<<a.scalar>>>>]
           /\ a.ndim = 1 =>
                 /\ h_result = [err |-> "none", val |-> <<a.entries>>]
                 /\ h_result = _check_shape_any_rank([ndim |-> 2, rows |-> <<a.entries>>])
           /\ (a.ndim = 2 /\ Len(a.rows) = 1) =>
                 h_result = [err |-> "none", val |-> a.rows]
           /\ (a.ndim = 2 /\ Len(a.rows) > 1 /\ Len(a.rows[1]) = 1) =>
                 h_result = [err |-> "none",
                             val |-> <<[c \in DOMAIN a.rows |-> a.rows[c][1]]>>]
           /\ (a.ndim = 2 /\ Len(a.rows) > 1 /\ Len(a.rows[1]) > 1) =>
                 h_result.err = "ValueError"
           /\ a.ndim > 2 => h_result.err = "ValueError"

\* C16's case: a (F, 1) array with F > 1 and two different entries was
\* accepted
C16_Witness ==
    /\ HelperCalled("_check_shape")
    /\ h_call.x.ndim = 2
    /\ Len(h_call.x.rows) > 1
    /\ h_call.x.rows[1] # h_call.x.rows[2]
    /\ h_result.err = "none"

\* the groups of a mapping do not all have the same length
LengthsDiffer(perturb_covariates) ==
    \E g \in DOMAIN perturb_covariates : \E h \in DOMAIN perturb_covariates :
        Len(perturb_covariates[g]) # Len(perturb_covariates[h])

AcceptedSampleRep(sample_rep) ==
    \/ sample_rep.type = "str" /\ (sample_rep.key = "X" \/ sample_rep.in_obsm)
    \/ sample_rep.type = "dict" /\ sample_rep.entries = 1

\* C18: _get_cell_data returns for the three accepted shapes of sample_rep
\* and raises ValueError for every other value.
C18_CellDataShapes ==
    HelperCalled("_get_cell_data") =>
        /\ h_result.err = "none" <=> AcceptedSampleRep(h_call.sample_rep)
        /\ h_result.err # "none" => h_result.err = "ValueError"

(***************************************************************************)
(* Properties of ComputeMetrics (under SpecMetrics).                       *)
(***************************************************************************)
HasUnsupportedMetric ==
    \E i \in DOMAIN cm_args.metrics : cm_args.metrics[i] \notin metric_to_func

\* C5: when any name of the metrics argument, at any position, is not a
\* supported metric, the constructor raises: the loop of __init__ is never
\* exhausted, no object is obtained and no hook is ever invoked on one.
C5_UnsupportedMetricRaises ==
    HasUnsupportedMetric =>
        /\ cm_pc \in {"new", "init_loop", "raised"}
        /\ cm_pc = "init_loop" => cm_i <= Len(cm_args.metrics)
        /\ cm_pc = "raised" => cm_error = "ValueError"
        /\ cm_call = "none"

\* C5's case: the constructor has raised on a list whose first name is
\* supported and whose second is not
C5_Witness ==
    /\ cm_pc = "raised"
    /\ cm_error = "ValueError"
    /\ Len(cm_args.metrics) >= 2
    /\ cm_args.metrics[1] \in metric_to_func
    /\ cm_args.metrics[2] \notin metric_to_func

\* C23: ComputeMetrics.on_train_end does not fail where on_log_iteration
\* does not, and returns the mapping on_log_iteration returns for the same
\* arguments.
C23_TrainEndSameAsLogIteration ==
    cm_call = "on_train_end" =>
        \E validation_data \in ValidationDataSets :
            /\ cm_result = ComputeMetrics_on_log_iteration(cm_self, validation_data)
            /\ ComputeMetrics_on_log_iteration(cm_self, validation_data).err = "none"
               => cm_result.err = "none"

(***************************************************************************)
(* Properties of CallbackRunner (under SpecRunner).                        *)
(***************************************************************************)
\* C4: a callback list with a LoggingCallback and no ComputationCallback
\* makes the constructor raise: no runner is obtained and no hook runs.
C4_LoggingWithoutComputationRaises ==
    (/\ \E i \in DOMAIN r_callbacks : isLoggingCallback(r_callbacks[i])
     /\ ~\E i \in DOMAIN r_callbacks : isComputationCallback(r_callbacks[i]))
    => /\ r_pc \in {"new", "raised"}
       /\ r_hook = "none"

\* the position of a dataset name in the data mapping
DatasetIndex(name) == CHOOSE i \in DOMAIN r_data : DatasetName[i] = name

\* C6: on_train_end samples each validation dataset with that dataset's
\* n_conditions_on_train_end.
C6_TrainEndUsesTrainEndCount ==
    r_hook = "on_train_end" =>
        \A name \in DOMAIN r_n_used :
            r_n_used[name] = r_data[DatasetIndex(name)].n_conditions_on_train_end

\* C22: CallbackRunner.on_train_end invokes the on_train_end hook of every
\* callback, computation callbacks with the sampled validation data and
\* logging callbacks with the merged mapping, and never their
\* on_log_iteration hook.
C22_TrainEndInvokesTrainEndHooks ==
    r_hook = "on_train_end" =>
        \A i \in DOMAIN r_calls :
            /\ r_calls[i].method = "on_train_end"
            /\ r_calls[i].list = "computation" =>
                   r_calls[i].data = Some(r_validation_data)

\* a hook of the runner has ended without any callback raising: it returned,
\* or _sample_validation_data raised
HookOver ==
    /\ r_hook # "none"
    /\ \/ r_pc \in {"training", "finished"}
       \/ r_pc = "raised" /\ r_error \in SampleErrors

\* every computation callback in list order, then every logging callback in
\* list order
ExpectedCalls ==
    [i \in 1..(NC + NL) |->
        IF i <= NC THEN <<"computation", i>> ELSE <<"logging", i - NC>>]

\* C7: in every hook each computation callback is invoked once, in list
\* order, then each logging callback once, in list order; on_train_begin
\* passes no data.
C7_EveryCallbackOnceInOrder ==
    HookOver =>
        /\ [i \in DOMAIN r_calls |-> <<r_calls[i].list, r_calls[i].index>>] = ExpectedCalls
        /\ r_hook = "on_train_begin" =>
              \A i \in DOMAIN r_calls : r_calls[i].data = None

\* what computation callback i returns in the current hook
ResultsOf(i) ==
    ComputeMetrics_on_log_iteration(r_self.computation_callbacks[i], r_validation_data).val

\* the merge of the computation callbacks' results in which, for a key
\* several callbacks report, the value of the last of them stands
LastWriteWins ==
    LET keys == UNION {DOMAIN ResultsOf(i) : i \in 1..NC}
    IN [k \in keys |-> ResultsOf(Max({i \in 1..NC : k \in DOMAIN ResultsOf(i)}))[k]]

\* C8: in on_log_iteration the mapping every logging callback is passed and
\* the mapping returned are the same: the last-write-wins merge of the
\* computation callbacks' results.
C8_MergedMappingForwardedAndReturned ==
    r_hook = "on_log_iteration" =>
        /\ \A i \in DOMAIN r_calls :
              r_calls[i].list = "logging" => r_calls[i].data = Some(LastWriteWins)
        /\ r_pc = "training" => r_returned = Some(LastWriteWins)

\* C8's case: on_log_iteration has returned, a logging callback was passed
\* the mapping, and two computation callbacks reported different values for
\* one key
C8_Witness ==
    /\ r_hook = "on_log_iteration"
    /\ r_pc = "training"
    /\ \E i \in DOMAIN r_calls : r_calls[i].list = "logging"
    /\ \E i \in 1..NC : \E j \in 1..NC :
          /\ i < j
          /\ \E k \in DOMAIN ResultsOf(i) \cap DOMAIN ResultsOf(j) :
                ResultsOf(i)[k] # ResultsOf(j)[k]

\* _sample_validation_data raised: the hook ended before any callback ran
SampleRaised ==
    /\ r_hook \in {"on_log_iteration", "on_train_end"}
    /\ r_pc = "raised"
    /\ r_calls = <<>>
    /\ r_error \in SampleErrors

\* C9: _sample_validation_data returns, for every dataset, the dataset
\* itself when its count is -1 and otherwise a subset of exactly that many
\* of its conditions.
C9_SampleReturnsSubsets ==
    /\ ~SampleRaised
    /\ (r_pc = "callbacks" /\ r_hook # "on_train_begin") =>
          \A name \in DOMAIN r_n_used :
              /\ name \in DOMAIN r_validation_data
              /\ r_n_used[name] = -1 => r_validation_data[name] = "ValidationData"
              /\ r_n_used[name] = 0 => r_validation_data[name] = "dict"

=============================================================================
